---- MODULE Spec2Model ----
(***************************************************************************)
(* Model of the KPI bonus calculator (src/App.tsx, src/types.ts).          *)
(*                                                                         *)
(* Text is modelled as a sequence of one-character strings, so that the    *)
(* CSV import (split, trim, replace, parseFloat) and the CSV export        *)
(* (toFixed, concatenation with ";") are computed character by character.  *)
(* Numbers are exact integers counting 1/Scale of a currency unit: the     *)
(* code's doubles are modelled by exact decimal arithmetic.                *)
(***************************************************************************)
EXTENDS Integers, Sequences, FiniteSets, TLC

VARIABLES
    tables,          \* bracket table of every (KPIType, EmployeeRole) pair
    call,            \* the latest call of getBonusPercentage and its result
    employees,       \* useState<Employee[]>
    teamPerformance, \* useState<{[empId]: EmployeePerformance}>
    selectedId,      \* useState<string | null>
    reads,           \* FileReader loads started and not yet delivered
    now,             \* the latest reading of the clock, Date.now()
    download,        \* the file the latest handler handed to the browser
    steps            \* number of user events handled so far

vars == <<tables, call, employees, teamPerformance, selectedId, reads, now,
          download, steps>>

appVars == <<employees, teamPerformance, selectedId, reads, now, download, steps>>

-----------------------------------------------------------------------------
(* Bounds of the model *)

MaxBrackets == 2      \* longest bracket table drawn
MaxThreshold == 3     \* largest attaining threshold drawn
MaxPct == 2           \* largest basePercentage drawn
MaxSteps == 2         \* user events handled in one behaviour

-----------------------------------------------------------------------------
(* src/types.ts *)

\* Object.values(KPIType): the enumeration order
KPIType == <<"MONTHLY_BSC", "QUARTERLY_GERENCIAL", "MONTHLY_MAT", "QUARTERLY_SPECIAL">>

KPITypes == {KPIType[i] : i \in 1..Len(KPIType)}

EmployeeRole == {"GERENTE", "EQUIPE"}

Cells == KPITypes \X EmployeeRole

-----------------------------------------------------------------------------
(* Sequence helpers *)

Range(s) == {s[i] : i \in 1..Len(s)}

RECURSIVE SumSeq(_)
SumSeq(s) == IF s = <<>> THEN 0 ELSE Head(s) + SumSeq(Tail(s))

RECURSIVE Concat(_)
Concat(ss) == IF ss = <<>> THEN <<>> ELSE Head(ss) \o Concat(Tail(ss))

Max0(a) == IF a < 0 THEN 0 ELSE a

-----------------------------------------------------------------------------
(* Bracket tables and getBonusPercentage (services/calculator, constants)  *)

\* PrizeBracket values drawn for the tables
PctDomain == (0 - 1)..MaxPct

ThresholdDomain == 1..MaxThreshold

PrizeBracket == [attaining : ThresholdDomain, basePercentage : PctDomain]

\* a bracket table: sorted ascending by attaining, no duplicate thresholds
IsBracketTable(t) ==
    \A i \in 1..Len(t), j \in 1..Len(t) : i < j => t[i].attaining < t[j].attaining

RECURSIVE TablesOfLen(_)
TablesOfLen(n) ==
    IF n = 0 THEN {<<>>}
    ELSE {Append(t, b) : t \in TablesOfLen(n - 1), b \in PrizeBracket}

BracketTables ==
    {t \in UNION {TablesOfLen(n) : n \in 0..MaxBrackets} : IsBracketTable(t)}

\* achievements the function is called with: below, at and above every threshold
AchDomain == (0 - 1)..(MaxThreshold + 1)

tableFor(kpiType, role) == tables[<<kpiType, role>>]

\* ascending scan, the last bracket whose threshold is reached wins
RECURSIVE scanBrackets(_, _, _)
scanBrackets(t, achievement, found) ==
    IF t = <<>> THEN found
    ELSE scanBrackets(Tail(t), achievement,
                      IF Head(t).attaining <= achievement
                      THEN Head(t).basePercentage ELSE found)

\* mutant: the threshold itself does not yet earn the bracket
RECURSIVE scanBracketsStrict(_, _, _)
scanBracketsStrict(t, achievement, found) ==
    IF t = <<>> THEN found
    ELSE scanBracketsStrict(Tail(t), achievement,
                            IF Head(t).attaining < achievement
                            THEN Head(t).basePercentage ELSE found)

\* mutant: the comparison is turned around
RECURSIVE scanBracketsReversed(_, _, _)
scanBracketsReversed(t, achievement, found) ==
    IF t = <<>> THEN found
    ELSE scanBracketsReversed(Tail(t), achievement,
                              IF Head(t).attaining >= achievement
                              THEN Head(t).basePercentage ELSE found)

getBonusPercentageReversed(kpiType, achievement, role) ==
    scanBracketsReversed(tableFor(kpiType, role), Max0(achievement), 0)

\* mutant: the first bracket reached wins
getBonusPercentageFirstMatch(kpiType, achievement, role) ==
    LET t == tableFor(kpiType, role)
        hit == {i \in 1..Len(t) : t[i].attaining <= Max0(achievement)}
    IN  IF hit = {} THEN 0
        ELSE t[CHOOSE i \in hit : \A j \in hit : i <= j].basePercentage

\* mutant: the strict scan
getBonusPercentageStrict(kpiType, achievement, role) ==
    scanBracketsStrict(tableFor(kpiType, role), Max0(achievement), 0)

\* mutant: an achievement below the floor earns the lowest bracket
getBonusPercentageFloor(kpiType, achievement, role) ==
    LET t == tableFor(kpiType, role)
    IN  scanBrackets(t, Max0(achievement),
                     IF t = <<>> THEN 0 ELSE t[1].basePercentage)

\* resolveBonusPercentage: negative achievement behaves as 0, then the scan
getBonusPercentage(kpiType, achievement, role) ==
    scanBrackets(tableFor(kpiType, role), Max0(achievement), 0)

NoCall == [done |-> FALSE, kpiType |-> KPIType[1], role |-> "GERENTE",
           achievement |-> 0, result |-> 0]

\* one call of the pure function, its result recorded
Resolve ==
    /\ ~call.done
    /\ \E k \in KPITypes, r \in EmployeeRole, a \in AchDomain :
          call' = [done |-> TRUE, kpiType |-> k, role |-> r, achievement |-> a,
                   result |-> getBonusPercentage(k, a, r)]
    /\ UNCHANGED <<tables, appVars>>

-----------------------------------------------------------------------------
(* Text: a string is a sequence of one-character strings *)

Digits == <<"0", "1", "2", "3", "4", "5", "6", "7", "8", "9">>

IsDigit(c) == c \in Range(Digits)

DigitVal(c) == (CHOOSE i \in 1..Len(Digits) : Digits[i] = c) - 1

LowerLetters ==
    <<"a", "b", "c", "d", "e", "f", "g", "h", "i", "j", "k", "l", "m", "n",
      "o", "p", "q", "r", "s", "t", "u", "v", "w", "x", "y", "z">>

UpperLetters ==
    <<"A", "B", "C", "D", "E", "F", "G", "H", "I", "J", "K", "L", "M", "N",
      "O", "P", "Q", "R", "S", "T", "U", "V", "W", "X", "Y", "Z">>

\* String.prototype.toUpperCase
toUpperCase(s) ==
    [i \in 1..Len(s) |->
        IF s[i] \in Range(LowerLetters)
        THEN UpperLetters[CHOOSE k \in 1..Len(LowerLetters) : LowerLetters[k] = s[i]]
        ELSE s[i]]

\* String.prototype.toLowerCase
toLowerCase(s) ==
    [i \in 1..Len(s) |->
        IF s[i] \in Range(UpperLetters)
        THEN LowerLetters[CHOOSE k \in 1..Len(UpperLetters) : UpperLetters[k] = s[i]]
        ELSE s[i]]

\* String.prototype.includes for a one-character needle
includes(s, c) == \E i \in 1..Len(s) : s[i] = c

\* String.prototype.split for a one-character separator
RECURSIVE split(_, _)
split(s, sep) ==
    IF ~includes(s, sep) THEN <<s>>
    ELSE LET i == CHOOSE k \in 1..Len(s) :
                      s[k] = sep /\ \A j \in 1..(k - 1) : s[j] # sep
         IN  <<SubSeq(s, 1, i - 1)>> \o split(SubSeq(s, i + 1, Len(s)), sep)

\* Array.prototype.join
RECURSIVE join(_, _)
join(ss, sep) ==
    IF ss = <<>> THEN <<>>
    ELSE IF Len(ss) = 1 THEN ss[1]
    ELSE ss[1] \o sep \o join(Tail(ss), sep)

IsSpace(c) == c \in {" ", "\t", "\r"}

\* String.prototype.trim
RECURSIVE trim(_)
trim(s) ==
    IF s = <<>> THEN s
    ELSE IF IsSpace(s[1]) THEN trim(Tail(s))
    ELSE IF IsSpace(s[Len(s)]) THEN trim(SubSeq(s, 1, Len(s) - 1))
    ELSE s

\* .replace(/[R$\s]/g, '')
stripCurrency(s) == SelectSeq(s, LAMBDA c : ~(c \in {"R", "$"} \/ IsSpace(c)))

\* .replace(/\.(?=[0-9]{3})/g, ''): a point followed by three digits is dropped
stripThousands(s) ==
    LET drop(i) == /\ s[i] = "."
                   /\ i + 3 <= Len(s)
                   /\ \A j \in (i + 1)..(i + 3) : IsDigit(s[j])
        keep == {i \in 1..Len(s) : ~drop(i)}
        idx(n) == CHOOSE i \in keep : Cardinality({j \in keep : j <= i}) = n
    IN  [n \in 1..Cardinality(keep) |-> s[idx(n)]]

\* .replace(',', '.'): the first comma only
commaToPoint(s) ==
    [i \in 1..Len(s) |->
        IF s[i] = "," /\ \A j \in 1..(i - 1) : s[j] # "," THEN "." ELSE s[i]]

-----------------------------------------------------------------------------
(* Numbers: integers counting 1/Scale of a unit *)

Scale == 1000 * 100

\* a percentage is an integer counting 1/PctScale of a percent: the summary
\* shows percentages with one fraction digit, bonusPct.toFixed(1)
PctScale == 10

RECURSIVE digitsValue(_)
digitsValue(ds) ==
    IF ds = <<>> THEN 0
    ELSE 10 * digitsValue(SubSeq(ds, 1, Len(ds) - 1)) + DigitVal(ds[Len(ds)])

\* last index of the run of digits that starts at i (i - 1 when there is none)
digitRunEnd(s, i) ==
    LET stop == {j \in i..Len(s) : ~IsDigit(s[j])}
    IN  IF stop = {} THEN Len(s)
        ELSE (CHOOSE j \in stop : \A k \in stop : j <= k) - 1

\* parseFloat on sign, digits, point, digits; the longest such prefix is read.
\* Fraction digits beyond the model's precision (five) are not represented.
parseFloat(s) ==
    LET signed == Len(s) > 0 /\ s[1] \in {"-", "+"}
        start == IF signed THEN 2 ELSE 1
        intEnd == digitRunEnd(s, start)
        hasPoint == intEnd + 1 <= Len(s) /\ s[intEnd + 1] = "."
        fracEnd == IF hasPoint THEN digitRunEnd(s, intEnd + 2) ELSE intEnd + 1
        intDigits == SubSeq(s, start, intEnd)
        fracAll == IF hasPoint THEN SubSeq(s, intEnd + 2, fracEnd) ELSE <<>>
        frac5 == SubSeq(fracAll \o <<"0", "0", "0", "0", "0">>, 1, 5)
        magnitude == digitsValue(intDigits) * Scale + digitsValue(frac5)
    IN  [isNaN |-> intDigits = <<>> /\ fracAll = <<>>,
         value |-> IF signed /\ s[1] = "-" THEN 0 - magnitude ELSE magnitude]

RECURSIVE decimalDigits(_)
decimalDigits(n) ==
    IF n < 10 THEN <<Digits[n + 1]>>
    ELSE decimalDigits(n \div 10) \o <<Digits[(n % 10) + 1]>>

Abs(x) == IF x < 0 THEN 0 - x ELSE x

\* the value rounded to hundredths, in hundredths (magnitude; ties away from 0)
roundedHundredths(x) == (Abs(x) + (Scale \div 200)) \div (Scale \div 100)

\* mutant: one fraction digit
toFixedOneDigit(x) ==
    LET t == (Abs(x) + (Scale \div 20)) \div (Scale \div 10)
    IN  (IF x < 0 THEN <<"-">> ELSE <<>>)
        \o decimalDigits(t \div 10) \o <<".">> \o <<Digits[(t % 10) + 1]>>

\* Number.prototype.toFixed(2)
toFixed(x) ==
    LET h == roundedHundredths(x)
    IN  (IF x < 0 THEN <<"-">> ELSE <<>>)
        \o decimalDigits(h \div 100) \o <<".">>
        \o <<Digits[((h \div 10) % 10) + 1], Digits[(h % 10) + 1]>>

-----------------------------------------------------------------------------
(* Constant text of src/App.tsx and src/types.ts *)

\* the text of each KPIType value
KPIText(k) ==
    CASE k = "MONTHLY_BSC" ->
        <<"M", "O", "N", "T", "H", "L", "Y", "_", "B", "S", "C">>
      [] k = "QUARTERLY_GERENCIAL" ->
        <<"Q", "U", "A", "R", "T", "E", "R", "L", "Y", "_", "G", "E", "R",
          "E", "N", "C", "I", "A", "L">>
      [] k = "MONTHLY_MAT" ->
        <<"M", "O", "N", "T", "H", "L", "Y", "_", "M", "A", "T">>
      [] k = "QUARTERLY_SPECIAL" ->
        <<"Q", "U", "A", "R", "T", "E", "R", "L", "Y", "_", "S", "P", "E",
          "C", "I", "A", "L">>

\* the text of each EmployeeRole value
RoleText(r) ==
    CASE r = "GERENTE" ->
        <<"G", "E", "R", "E", "N", "T", "E">>
      [] r = "EQUIPE" ->
        <<"E", "Q", "U", "I", "P", "E">>

\* "Colaborador;Perfil;Salario Base;"
HeaderLead ==
    <<"C", "o", "l", "a", "b", "o", "r", "a", "d", "o", "r", ";", "P", "e",
      "r", "f", "i", "l", ";", "S", "a", "l", "a", "r", "i", "o", " ", "B",
      "a", "s", "e", ";">>

\* ";Total Premiacao\n"
HeaderTail ==
    <<";", "T", "o", "t", "a", "l", " ", "P", "r", "e", "m", "i", "a", "c",
      "a", "o", "\n">>

\* the names import rejects as header rows
NomeText ==
    <<"n", "o", "m", "e">>

GerenteLowerText ==
    <<"g", "e", "r", "e", "n", "t", "e">>

\* ids are numbers: a clock reading c is the id c * RandomRes, and the
\* fraction Math.random() adds to it is one of 0..RandomRes-1
Randoms == {0, 1}

RandomRes == Cardinality(Randoms)

null == 0

\* the default roster: ids '1' and '2'
DefaultEmployees ==
    << [id |-> 1,
        name |->
            <<"E", "x", "e", "m", "p", "l", "o", " ", "G", "e", "r", "e",
              "n", "t", "e">>,
        baseSalary |-> 18742 * Scale, role |-> "GERENTE"],
       [id |-> 2,
        name |->
            <<"E", "x", "e", "m", "p", "l", "o", " ", "E", "q", "u", "i",
              "p", "e">>,
        baseSalary |-> 5000 * Scale, role |-> "EQUIPE"] >>

-----------------------------------------------------------------------------
(* The calculation of exportToCSV and of the RH summary rows *)

EmptyPerformance == [k \in {} |-> 0]

\* teamPerformance[emp.id] || {}
performanceOf(id) ==
    IF id \in DOMAIN teamPerformance THEN teamPerformance[id] ELSE EmptyPerformance

\* mutant: a missing measurement counts as the top achievement
achievementOfFull(perf, type) ==
    IF type \in DOMAIN perf /\ perf[type] # 0 THEN perf[type] ELSE MaxThreshold + 1

\* perf[type] || 0
achievementOf(perf, type) ==
    IF type \in DOMAIN perf /\ perf[type] # 0 THEN perf[type] ELSE 0

\* (x * p) / d, the product split so that it stays within 32 bits
scaledProduct(x, p, d) == (x \div d) * p + ((x % d) * p) \div d

\* (emp.baseSalary * bonusPct) / 100
bonusValue(baseSalary, bonusPct) == scaledProduct(baseSalary, bonusPct, 100 * PctScale)

\* mutant: the total adds the values as rounded for display
addBonusRounded(total, bonusVal) ==
    total + (IF bonusVal < 0 THEN 0 - 1 ELSE 1)
            * roundedHundredths(bonusVal) * (Scale \div 100)

\* total += bonusVal
addBonus(total, bonusVal) == total + bonusVal

bonusPctOf(emp, type) ==
    getBonusPercentage(type, achievementOf(performanceOf(emp.id), type), emp.role)

\* the KPI type the i-th round of Object.values(KPIType).forEach handles
kpiAt(i) == KPIType[i]

\* the forEach over Object.values(KPIType) of one export row, after n rounds
RECURSIVE exportRounds(_, _)
exportRounds(emp, n) ==
    IF n = 0
    THEN [line |-> emp.name \o <<";">> \o RoleText(emp.role) \o <<";">>
                   \o toFixed(emp.baseSalary),
          total |-> 0]
    ELSE LET acc == exportRounds(emp, n - 1)
             bonusVal == bonusValue(emp.baseSalary, bonusPctOf(emp, kpiAt(n)))
         IN  [line |-> acc.line \o <<";">> \o toFixed(bonusVal),
              total |-> addBonus(acc.total, bonusVal)]

\* one row of the export
exportLine(emp) ==
    LET acc == exportRounds(emp, Len(KPIType))
    IN  acc.line \o <<";">> \o toFixed(acc.total) \o <<"\n">>

\* the header line of the export
csvHeader ==
    HeaderLead \o join([i \in 1..Len(KPIType) |-> KPIText(KPIType[i])], <<";">>)
    \o HeaderTail

\* the csv text exportToCSV builds
csvText ==
    csvHeader \o Concat([j \in 1..Len(employees) |-> exportLine(employees[j])])

\* the cells and the total of one row of the RH summary table
RECURSIVE summaryRounds(_, _)
summaryRounds(emp, n) ==
    IF n = 0 THEN [cells |-> <<>>, rowTotal |-> 0]
    ELSE LET acc == summaryRounds(emp, n - 1)
             bonusPct == bonusPctOf(emp, kpiAt(n))
             bonusVal == bonusValue(emp.baseSalary, bonusPct)
         IN  [cells |-> Append(acc.cells, [kpiType |-> kpiAt(n),
                                           bonusPct |-> bonusPct,
                                           bonusVal |-> bonusVal]),
              rowTotal |-> addBonus(acc.rowTotal, bonusVal)]

\* the rows the RH summary modal renders
RHSummary ==
    [j \in 1..Len(employees) |-> summaryRounds(employees[j], Len(KPIType))]

\* employees.find(e => e.id === selectedId)
hasSelectedEmployee == \E j \in 1..Len(employees) : employees[j].id = selectedId

selectedEmployee ==
    employees[CHOOSE j \in 1..Len(employees) :
                  /\ employees[j].id = selectedId
                  /\ \A k \in 1..(j - 1) : employees[k].id # selectedId]

\* calculateAll: one CalculationResult per KPI type, in enumeration order
calculateAll(emp, perf) ==
    [i \in 1..Len(KPIType) |->
        LET a == achievementOf(perf, KPIType[i])
            pct == getBonusPercentage(KPIType[i], a, emp.role)
        IN  [kpiType |-> KPIType[i], achievement |-> a, bonusPercentage |-> pct,
             bonusValue |-> bonusValue(emp.baseSalary, pct)]]

\* the results KPICalculator reports for the selected employee
currentSelectedResults ==
    IF hasSelectedEmployee
    THEN calculateAll(selectedEmployee, performanceOf(selectedId))
    ELSE <<>>

\* currentSelectedResults.reduce((acc, curr) => acc + curr.bonusValue, 0)
RECURSIVE reduceBonus(_)
reduceBonus(results) ==
    IF results = <<>> THEN 0
    ELSE addBonus(reduceBonus(SubSeq(results, 1, Len(results) - 1)),
                  results[Len(results)].bonusValue)

totalBonusForSelected == reduceBonus(currentSelectedResults)

-----------------------------------------------------------------------------
(* CSV import: the parsing of reader.onload *)

\* text.split(/\r?\n/)
splitLines(text) ==
    LET raw == split(text, "\n")
    IN  [i \in 1..Len(raw) |->
            IF i < Len(raw) /\ raw[i] # <<>> /\ raw[i][Len(raw[i])] = "\r"
            THEN SubSeq(raw[i], 1, Len(raw[i]) - 1) ELSE raw[i]]

\* line.includes(';') ? line.split(';') : line.split(',')
lineParts(line) == IF includes(line, ";") THEN split(line, ";") ELSE split(line, ",")

\* the salary column cleaned and parsed
parseSalary(column) == parseFloat(commaToPoint(stripThousands(stripCurrency(trim(column)))))

\* the role of a row, were the third column compared as it is written
parseRoleUntrimmed(parts) ==
    IF Len(parts) >= 3 /\ parts[3] = RoleText("GERENTE")
    THEN "GERENTE" ELSE "EQUIPE"

\* the role of a row: GERENTE only for a third column reading GERENTE
parseRole(parts) ==
    IF Len(parts) >= 3 /\ parts[3] # <<>>
          /\ toUpperCase(trim(parts[3])) = RoleText("GERENTE")
    THEN "GERENTE" ELSE "EQUIPE"

\* name && !isNaN(salary) && name is neither 'nome' nor 'gerente'
acceptsRow(name, salary) ==
    /\ name # <<>>
    /\ ~salary.isNaN
    /\ toLowerCase(name) # NomeText
    /\ toLowerCase(name) # GerenteLowerText

\* one line of the file: whether it yields an employee, and which
parseLine(line) ==
    LET parts == lineParts(line)
    IN  IF Len(parts) >= 2
        THEN LET name == trim(parts[1])
                 salary == parseSalary(parts[2])
             IN  [accepted |-> acceptsRow(name, salary), name |-> name,
                  baseSalary |-> salary.value, role |-> parseRole(parts)]
        ELSE [accepted |-> FALSE, name |-> <<>>, baseSalary |-> 0,
              role |-> "EQUIPE"]

\* the rows of the file that become employees, in file order
importedRows(text) ==
    LET lines == splitLines(text)
    IN  SelectSeq([i \in 1..Len(lines) |-> parseLine(lines[i])],
                  LAMBDA r : r.accepted)

\* The file defines the component App twice; the first definition
\* (src/App.tsx lines 14 to 277) differs from the second, modelled above and
\* below, in the rows its import accepts, in handleDeleteEmployee and in
\* having no clearAllData.

\* the first definition's filter: name && !isNaN(salary) && name is not 'nome'
acceptsRowFirst(name, salary) ==
    /\ name # <<>>
    /\ ~salary.isNaN
    /\ toLowerCase(name) # NomeText

parseLineFirst(line) ==
    LET parts == lineParts(line)
        row == parseLine(line)
    IN  IF Len(parts) >= 2
        THEN [row EXCEPT !.accepted = acceptsRowFirst(row.name, parseSalary(parts[2]))]
        ELSE row

importedRowsFirst(text) ==
    LET lines == splitLines(text)
    IN  SelectSeq([i \in 1..Len(lines) |-> parseLineFirst(lines[i])],
                  LAMBDA r : r.accepted)

\* files the import is exercised with
FileHeaderAndNegative ==
    <<"N", "o", "m", "e", ";", "S", "a", "l", "a", "r", "i", "o", ";", "P",
      "e", "r", "f", "i", "l", "\n", "B", "o", ";", "-", "5", "0", ";",
      "g", "e", "r", "e", "n", "t", "e">>

FileCurrencyAndRejects ==
    <<"E", "d", ";", "R", "$", " ", "2", ".", "5", "0", "0", ",", "7", "5",
      ";", "G", "E", "R", "E", "N", "T", "E", "\n", "G", "e", "r", "e",
      "n", "t", "e", ";", "1", "0", "\n", "x", "\n", "D", "i", ";", "a",
      "b", "c">>

FileCommas ==
    <<"C", "y", ",", "0", ".", "4", ",", " ", "G", "e", "r", "e", "n", "t",
      "e", " ", "\n">>

FileTwoRows ==
    <<"A", "l", ";", "1", "\n", "B", "e", ";", "2", ";", "E", "q", "u",
      "i", "p", "e">>

ImportFiles ==
    {<<>>, FileHeaderAndNegative, FileCurrencyAndRejects, FileCommas, FileTwoRows}

\* what the form of the add modal holds when it is submitted; the salary field
\* is an <input type="number">: empty or the text of a number
AddForms ==
    { [name |-> <<"A", ";", "B">>, baseSalary |-> <<"0", ".", "4">>, role |-> "EQUIPE"],
      [name |-> <<"A", "n", "a">>, baseSalary |-> <<"-", "5">>, role |-> "GERENTE"],
      [name |-> <<>>, baseSalary |-> <<"1", "0">>, role |-> "EQUIPE"],
      [name |-> <<"A", "n", "a">>, baseSalary |-> <<>>, role |-> "EQUIPE"] }

\* achievements the KPI calculator reports
AchInputs == {0 - 1, 2}

-----------------------------------------------------------------------------
(* The handlers of App *)

NoDownload == <<>>

rosterIds == {employees[j].id : j \in 1..Len(employees)}

\* a user event is handled: no file is handed to the browser by it
userEvent ==
    /\ steps < MaxSteps
    /\ steps' = steps + 1
    /\ download' = NoDownload

\* handlePerformanceChange(kpi, value)
handlePerformanceChange(kpi, value) ==
    /\ userEvent
    /\ teamPerformance' =
          IF selectedId = null THEN teamPerformance
          ELSE LET prev == performanceOf(selectedId)
                   entry == [k \in DOMAIN prev \cup {kpi} |->
                                IF k = kpi THEN value ELSE prev[k]]
               IN  [id \in DOMAIN teamPerformance \cup {selectedId} |->
                       IF id = selectedId THEN entry ELSE teamPerformance[id]]
    /\ UNCHANGED <<tables, call, employees, selectedId, reads, now>>

\* what Date.now() can return: the clock has advanced since the last reading,
\* or it has not
clockReadings == {now, now + 1}

\* handleAddEmployee, the form as submitted
handleAddEmployee(newEmployee) ==
    /\ userEvent
    /\ IF newEmployee.name = <<>> \/ newEmployee.baseSalary = <<>>
       THEN UNCHANGED <<employees, selectedId, now>>
       ELSE \E t \in clockReadings :
               LET employee == [id |-> t * RandomRes,
                                name |-> newEmployee.name,
                                baseSalary |-> parseFloat(newEmployee.baseSalary).value,
                                role |-> newEmployee.role]
               IN  /\ employees' = Append(employees, employee)
                   /\ selectedId' = employee.id
                   /\ now' = t
    /\ UNCHANGED <<tables, call, teamPerformance, reads>>

\* handleFileUpload: the read of the chosen file is started
handleFileUpload(text) ==
    /\ userEvent
    /\ reads' = Append(reads, text)
    /\ UNCHANGED <<tables, call, employees, teamPerformance, selectedId, now>>

\* reader.onload, were the roster replaced by the imported rows
\* (setEmployees(newEmployees)) instead of extended by them
readerOnloadReplace(i) ==
    /\ i \in 1..Len(reads)
    /\ LET text == reads[i]
           rows == IF text = <<>> THEN <<>> ELSE importedRows(text)
       IN  IF Len(rows) = 0
           THEN UNCHANGED <<employees, now>>
           ELSE \E t \in clockReadings, random \in [1..Len(rows) -> Randoms] :
                   /\ employees' =
                         [n \in 1..Len(rows) |->
                             [id |-> t * RandomRes + random[n],
                              name |-> rows[n].name,
                              baseSalary |-> rows[n].baseSalary,
                              role |-> rows[n].role]]
                   /\ now' = t
    /\ reads' = [n \in 1..(Len(reads) - 1) |-> IF n < i THEN reads[n] ELSE reads[n + 1]]
    /\ download' = NoDownload
    /\ UNCHANGED <<tables, call, teamPerformance, selectedId, steps>>

\* reader.onload of the i-th pending read
readerOnload(i) ==
    /\ i \in 1..Len(reads)
    /\ LET text == reads[i]
           rows == IF text = <<>> THEN <<>> ELSE importedRows(text)
       IN  IF Len(rows) = 0
           THEN UNCHANGED <<employees, now>>
           ELSE \E t \in clockReadings, random \in [1..Len(rows) -> Randoms] :
                   LET newEmployees ==
                           [n \in 1..Len(rows) |->
                               [id |-> t * RandomRes + random[n],
                                name |-> rows[n].name,
                                baseSalary |-> rows[n].baseSalary,
                                role |-> rows[n].role]]
                   IN  /\ employees' = employees \o newEmployees
                       /\ now' = t
    /\ reads' = [n \in 1..(Len(reads) - 1) |-> IF n < i THEN reads[n] ELSE reads[n + 1]]
    /\ download' = NoDownload
    /\ UNCHANGED <<tables, call, teamPerformance, selectedId, steps>>

\* reader.onload of the first definition of the component
readerOnloadFirst(i) ==
    /\ i \in 1..Len(reads)
    /\ LET text == reads[i]
           rows == IF text = <<>> THEN <<>> ELSE importedRowsFirst(text)
       IN  IF Len(rows) = 0
           THEN UNCHANGED <<employees, now>>
           ELSE \E t \in clockReadings, random \in [1..Len(rows) -> Randoms] :
                   LET newEmployees ==
                           [n \in 1..Len(rows) |->
                               [id |-> t * RandomRes + random[n],
                                name |-> rows[n].name,
                                baseSalary |-> rows[n].baseSalary,
                                role |-> rows[n].role]]
                   IN  /\ employees' = employees \o newEmployees
                       /\ now' = t
    /\ reads' = [n \in 1..(Len(reads) - 1) |-> IF n < i THEN reads[n] ELSE reads[n + 1]]
    /\ download' = NoDownload
    /\ UNCHANGED <<tables, call, teamPerformance, selectedId, steps>>

\* handleDeleteEmployee of the first definition of the component: the
\* roster is filtered and the selection reset, teamPerformance is not touched
handleDeleteEmployeeFirst(id, confirmed) ==
    /\ userEvent
    /\ id \in rosterIds
    /\ IF confirmed
       THEN /\ employees' = SelectSeq(employees, LAMBDA e : e.id # id)
            /\ selectedId' = IF selectedId = id THEN null ELSE selectedId
       ELSE UNCHANGED <<employees, selectedId>>
    /\ UNCHANGED <<tables, call, teamPerformance, reads, now>>

\* handleDeleteEmployee, were the selection kept when its employee is removed
handleDeleteEmployeeKeepSelection(id, confirmed) ==
    /\ userEvent
    /\ id \in rosterIds
    /\ IF confirmed
       THEN /\ employees' = SelectSeq(employees, LAMBDA e : e.id # id)
            /\ teamPerformance' =
                  [k \in DOMAIN teamPerformance \ {id} |-> teamPerformance[k]]
            /\ UNCHANGED selectedId
       ELSE UNCHANGED <<employees, teamPerformance, selectedId>>
    /\ UNCHANGED <<tables, call, reads, now>>

\* handleDeleteEmployee(id), the confirm dialog answered
handleDeleteEmployee(id, confirmed) ==
    /\ userEvent
    /\ id \in rosterIds
    /\ IF confirmed
       THEN /\ employees' = SelectSeq(employees, LAMBDA e : e.id # id)
            /\ teamPerformance' =
                  [k \in DOMAIN teamPerformance \ {id} |-> teamPerformance[k]]
            /\ selectedId' = IF selectedId = id THEN null ELSE selectedId
       ELSE UNCHANGED <<employees, teamPerformance, selectedId>>
    /\ UNCHANGED <<tables, call, reads, now>>

\* clearAllData, were the roster alone emptied
clearAllDataRosterOnly(confirmed) ==
    /\ userEvent
    /\ Len(employees) > 0
    /\ IF confirmed
       THEN /\ employees' = <<>>
            /\ UNCHANGED <<teamPerformance, selectedId>>
       ELSE UNCHANGED <<employees, teamPerformance, selectedId>>
    /\ UNCHANGED <<tables, call, reads, now>>

\* clearAllData, the confirm dialog answered; the button shows for a non-empty roster
clearAllData(confirmed) ==
    /\ userEvent
    /\ Len(employees) > 0
    /\ IF confirmed
       THEN /\ employees' = <<>>
            /\ teamPerformance' = EmptyPerformance
            /\ selectedId' = null
       ELSE UNCHANGED <<employees, teamPerformance, selectedId>>
    /\ UNCHANGED <<tables, call, reads, now>>

\* onSelect of an employee card
setSelectedId(id) ==
    /\ userEvent
    /\ id \in rosterIds
    /\ selectedId' = id
    /\ UNCHANGED <<tables, call, employees, teamPerformance, reads, now>>

\* exportToCSV: the csv text is handed to the browser as a download
exportToCSV ==
    /\ download' = csvText
    /\ UNCHANGED <<tables, call, employees, teamPerformance, selectedId, reads,
                   now, steps>>

-----------------------------------------------------------------------------
(* Specifications *)

kpiIndex(k) == CHOOSE i \in 1..Len(KPIType) : KPIType[i] = k

\* the bracket tables the roster is calculated with: two brackets per pair,
\* different for every KPI type and for the two roles
PlanTables ==
    [c \in Cells |->
        LET m == IF c[2] = "GERENTE" THEN 2 ELSE 1
        IN  << [attaining |-> 1, basePercentage |-> m * 5 + kpiIndex(c[1])],
               [attaining |-> 2, basePercentage |-> m * 10 + kpiIndex(c[1])] >>]

\* the component mounted with nothing saved in localStorage: the useState
\* initialisers give the example roster, no performance and the first
\* employee selected
InitApp ==
    /\ employees = DefaultEmployees
    /\ teamPerformance = EmptyPerformance
    /\ selectedId = employees[1].id
    /\ reads = <<>>
    /\ now = Len(DefaultEmployees)
    /\ download = NoDownload
    /\ steps = 0

Init ==
    /\ tables = PlanTables
    /\ call = NoCall
    /\ InitApp

Next ==
    \/ \E k \in KPITypes, v \in AchInputs : handlePerformanceChange(k, v)
    \/ \E f \in AddForms : handleAddEmployee(f)
    \/ \E t \in ImportFiles : handleFileUpload(t)
    \/ \E i \in 1..Len(reads) : readerOnload(i)
    \/ \E id \in rosterIds, c \in BOOLEAN : handleDeleteEmployee(id, c)
    \/ \E c \in BOOLEAN : clearAllData(c)
    \/ \E id \in rosterIds : setSelectedId(id)
    \/ exportToCSV

Spec == Init /\ [][Next]_vars

\* the pure function on drawn tables: one pair gets a drawn table, the others
\* the plan's
InitResolve ==
    /\ \E c \in Cells, t \in BracketTables :
          tables = [x \in Cells |-> IF x = c THEN t ELSE PlanTables[x]]
    /\ call = NoCall
    /\ InitApp

NextResolve == Resolve

SpecResolve == InitResolve /\ [][NextResolve]_vars

\* the first definition of the component: its handlers, of which
\* handlePerformanceChange, handleAddEmployee, handleFileUpload, the card's
\* onSelect and exportToCSV are those of the second; it has no clearAllData
NextFirst ==
    \/ \E k \in KPITypes, v \in AchInputs : handlePerformanceChange(k, v)
    \/ \E f \in AddForms : handleAddEmployee(f)
    \/ \E t \in ImportFiles : handleFileUpload(t)
    \/ \E i \in 1..Len(reads) : readerOnloadFirst(i)
    \/ \E id \in rosterIds, c \in BOOLEAN : handleDeleteEmployeeFirst(id, c)
    \/ \E id \in rosterIds : setSelectedId(id)
    \/ exportToCSV

SpecFirst == Init /\ [][NextFirst]_vars

-----------------------------------------------------------------------------
(* Properties of getBonusPercentage, checked under SpecResolve.             *)
(* Achievements and thresholds are integers counting the same unit, so the  *)
(* achievement just below a threshold T is T - 1.                           *)

calledTable == tableFor(call.kpiType, call.role)

\* the brackets of the called table whose threshold the achievement reaches
reachedBrackets ==
    {i \in 1..Len(calledTable) : calledTable[i].attaining <= call.achievement}

\* C1: the result is the basePercentage of the highest bracket of the table of
\* (kpiType, role) whose threshold is <= the achievement, and 0 when the
\* achievement is below every threshold.
C1_HighestReachedBracket ==
    call.done =>
        IF reachedBrackets = {} THEN call.result = 0
        ELSE LET top == CHOOSE i \in reachedBrackets :
                            \A j \in reachedBrackets :
                                calledTable[j].attaining <= calledTable[i].attaining
             IN  call.result = calledTable[top].basePercentage

C1_Witness ==
    /\ call.done
    /\ Cardinality(reachedBrackets) = 2
    /\ calledTable[1].basePercentage # calledTable[2].basePercentage
    /\ call.result # 0

\* C2 as stated: for every table sorted ascending by attaining without duplicate
\* thresholds, a lower achievement never resolves to a higher percentage.
C2_MonotoneOnEveryTable ==
    (call.done /\ IsBracketTable(calledTable)) =>
        \A a \in AchDomain :
            a <= call.achievement =>
                getBonusPercentage(call.kpiType, a, call.role) <= call.result

\* the percentages of the table are non-negative and do not decrease with the
\* thresholds
pctNonDecreasing(t) ==
    /\ \A i \in 1..Len(t) : t[i].basePercentage >= 0
    /\ \A i \in 1..Len(t), j \in 1..Len(t) :
          i < j => t[i].basePercentage <= t[j].basePercentage

\* C2 amended: for every table sorted ascending by attaining without duplicate
\* thresholds whose percentages are non-negative and non-decreasing in table
\* order, a lower achievement never resolves to a higher percentage.
C2_MonotoneOnRisingTable ==
    (call.done /\ IsBracketTable(calledTable) /\ pctNonDecreasing(calledTable)) =>
        \A a \in AchDomain :
            a <= call.achievement =>
                getBonusPercentage(call.kpiType, a, call.role) <= call.result

C2_Witness ==
    /\ call.done
    /\ pctNonDecreasing(calledTable)
    /\ Len(calledTable) = 2
    /\ calledTable[1].basePercentage < calledTable[2].basePercentage
    /\ call.achievement >= calledTable[2].attaining
    /\ \E a \in AchDomain :
          /\ a < call.achievement
          /\ getBonusPercentage(call.kpiType, a, call.role) < call.result

\* C3: at the threshold T of a bracket the result is that bracket's percentage,
\* and when the bracket before it has a different percentage the result just
\* below T differs from the result at T.
C3_BoundaryInclusive ==
    call.done =>
        \A i \in 1..Len(calledTable) :
            call.achievement = calledTable[i].attaining =>
                /\ call.result = calledTable[i].basePercentage
                /\ (i > 1 /\ calledTable[i - 1].basePercentage
                                # calledTable[i].basePercentage) =>
                      getBonusPercentage(call.kpiType, call.achievement - 1, call.role)
                          # call.result

C3_Witness ==
    /\ call.done
    /\ Len(calledTable) = 2
    /\ call.achievement = calledTable[2].attaining
    /\ calledTable[1].basePercentage # calledTable[2].basePercentage
    /\ call.result = calledTable[2].basePercentage

-----------------------------------------------------------------------------
(* Properties of the calculation and of the export, checked under Spec.     *)
(* While download holds a file, employees and teamPerformance are the ones  *)
(* exportToCSV read: every other handler clears download.                   *)

exported == download # NoDownload

\* the lines of the file: the header, then one line per employee
downloadLines == split(download, "\n")

headerColumns == split(downloadLines[1], ";")

\* the fields of the line written for employees[j]
rowFields(j) == split(downloadLines[j + 1], ";")

\* the value the i-th round of the KPI loop appended to the line of employees[j]
kpiField(j, i) ==
    LET f == rowFields(j) IN f[Len(f) - (Len(KPIType) + 1) + i]

\* the value appended after the KPI loop
totalField(j) == LET f == rowFields(j) IN f[Len(f)]

\* the field of the line of employees[j] in the column the header names k
fieldUnderHeader(j, k) ==
    rowFields(j)[CHOOSE c \in 1..Len(headerColumns) : headerColumns[c] = KPIText(k)]

hasNoEntry(id) == id \notin DOMAIN teamPerformance

lacksKey(id, k) == id \in DOMAIN teamPerformance /\ k \notin DOMAIN teamPerformance[id]

ZeroText == <<"0", ".", "0", "0">>

\* C5: for an employee without a performance entry, or whose entry lacks the
\* KPI key, the achievement used is 0 and the bonus percentage and the bonus
\* value of that KPI are 0, in the RH summary and in the CSV export.
C5_UnrecordedKpiYieldsZero ==
    \A j \in 1..Len(employees), i \in 1..Len(KPIType) :
        LET id == employees[j].id
            cell == RHSummary[j].cells[i]
        IN  (hasNoEntry(id) \/ lacksKey(id, KPIType[i])) =>
                /\ cell.kpiType = KPIType[i]
                /\ cell.bonusPct = 0
                /\ cell.bonusVal = 0
                /\ exported => kpiField(j, i) = ZeroText

C5_Witness ==
    /\ exported
    /\ \E j \in 1..Len(employees) : hasNoEntry(employees[j].id)
    /\ \E j \in 1..Len(employees), i \in 1..Len(KPIType), n \in 1..Len(KPIType) :
          /\ lacksKey(employees[j].id, KPIType[i])
          /\ kpiField(j, i) = ZeroText
          /\ kpiField(j, n) # ZeroText

\* the unrounded bonus values of employees[j], one per KPI type
unroundedValues(j) ==
    [i \in 1..Len(KPIType) |->
        scaledProduct(employees[j].baseSalary, bonusPctOf(employees[j], KPIType[i]),
                      100 * PctScale)]

\* baseSalary * (sum of the per-KPI percentages) / 100
salaryTimesPctSum(j) ==
    scaledProduct(employees[j].baseSalary,
                  SumSeq([i \in 1..Len(KPIType) |->
                             bonusPctOf(employees[j], KPIType[i])]),
                  100 * PctScale)

\* the sum of the values as they are displayed, each rounded to 2 decimals
sumOfRounded(j) ==
    SumSeq([i \in 1..Len(KPIType) |->
               (IF unroundedValues(j)[i] < 0 THEN 0 - 1 ELSE 1)
               * roundedHundredths(unroundedValues(j)[i]) * (Scale \div 100)])

\* C6: the total of every employee is the sum of the unrounded per-KPI bonus
\* values, which is baseSalary * (sum of the percentages) / 100; rounding is
\* applied only to the text written or shown.
C6_TotalIsUnroundedSum ==
    /\ \A j \in 1..Len(employees) :
          /\ RHSummary[j].rowTotal = SumSeq(unroundedValues(j))
          /\ RHSummary[j].rowTotal = salaryTimesPctSum(j)
          /\ exported => totalField(j) = toFixed(salaryTimesPctSum(j))
    /\ hasSelectedEmployee =>
          \E j \in 1..Len(employees) :
              /\ employees[j] = selectedEmployee
              /\ totalBonusForSelected = salaryTimesPctSum(j)

C6_Witness ==
    /\ exported
    /\ \E j \in 1..Len(employees) :
          /\ totalField(j) = toFixed(salaryTimesPctSum(j))
          /\ totalField(j) # toFixed(sumOfRounded(j))

isNegativeText(f) == Len(f) > 0 /\ f[1] = "-"

\* C7: a negative base salary is treated as 0, so every per-KPI bonus value
\* and every total is >= 0, in the RH summary and in the CSV export.
C7_BonusNeverNegative ==
    \A j \in 1..Len(employees) :
        /\ RHSummary[j].rowTotal >= 0
        /\ \A i \in 1..Len(KPIType) :
              /\ RHSummary[j].cells[i].bonusVal >= 0
              /\ exported => ~isNegativeText(kpiField(j, i))
        /\ exported => ~isNegativeText(totalField(j))

\* a number written with a point and exactly 2 fraction digits
isTwoDecimalText(f) ==
    LET body == IF isNegativeText(f) THEN Tail(f) ELSE f
        n == Len(body)
    IN  /\ n >= 4
        /\ body[n - 2] = "."
        /\ \A c \in 1..n : c # n - 2 => IsDigit(body[c])

kpiColumns == [i \in 1..Len(KPIType) |-> KPIText(KPIType[i])]

TotalColumn == Tail(SubSeq(HeaderTail, 1, Len(HeaderTail) - 1))

identityColumns == split(SubSeq(HeaderLead, 1, Len(HeaderLead) - 1), ";")

\* C8 as stated: the columns of the export are exactly one per KPIType, in
\* enumeration order, and a trailing total column; every number of a row has
\* exactly 2 decimal digits after a point.
C8_ColumnsAreKpisAndTotal ==
    exported =>
        /\ headerColumns = kpiColumns \o <<TotalColumn>>
        /\ \A j \in 1..Len(employees), i \in 1..Len(KPIType) :
              isTwoDecimalText(kpiField(j, i)) /\ isTwoDecimalText(totalField(j))

\* C8 amended: the columns of the export are the three identity columns
\* (Colaborador, Perfil, Salario Base), then exactly one per KPIType, in
\* enumeration order, then a trailing total column; the base salary, the KPI
\* values and the total written to a row each have exactly 2 decimal digits
\* after a point.
C8_ColumnsAfterIdentity ==
    exported =>
        /\ headerColumns = identityColumns \o kpiColumns \o <<TotalColumn>>
        /\ Len(identityColumns) = 3
        /\ Len(downloadLines) = Len(employees) + 2
        /\ \A j \in 1..Len(employees) :
              LET f == rowFields(j)
              IN  /\ Len(f) >= Len(headerColumns)
                  /\ \A c \in (Len(f) - Len(KPIType) - 1)..Len(f) :
                        isTwoDecimalText(f[c])

C8_Witness ==
    /\ exported
    /\ \E j \in 1..Len(employees), i \in 1..Len(KPIType) :
          /\ isTwoDecimalText(kpiField(j, i))
          /\ kpiField(j, i) # ZeroText
          /\ isNegativeText(totalField(j))

C10_SalaryNeverNegative ==
    \A j \in 1..Len(employees) : employees[j].baseSalary >= 0

-----------------------------------------------------------------------------
(* Properties of the CSV import, checked under Spec as properties of the    *)
(* steps that deliver a pending read: only reader.onload shortens reads.    *)

importCompletes == Len(reads') < Len(reads)

\* the text of the read this step delivers
deliveredText ==
    LET i == CHOOSE n \in 1..Len(reads) :
                 reads' = [m \in 1..(Len(reads) - 1) |->
                              IF m < n THEN reads[m] ELSE reads[m + 1]]
    IN  reads[i]

\* the employees this step puts behind the roster it started from
appended == SubSeq(employees', Len(employees) + 1, Len(employees'))

\* the lines of a file that the import accepts, in file order
acceptedLines(text) ==
    IF text = <<>> THEN <<>>
    ELSE SelectSeq(splitLines(text), LAMBDA l : parseLine(l).accepted)

GerenteUpperText == <<"G", "E", "R", "E", "N", "T", "E">>

\* the line has a third column whose trimmed, upper-cased text is GERENTE
thirdColumnIsGerente(line) ==
    LET parts == lineParts(line)
    IN  /\ Len(parts) >= 3
        /\ toUpperCase(trim(parts[3])) = GerenteUpperText

\* for every file, the roles the claim gives its accepted lines, in file order
expectedRoles ==
    [t \in ImportFiles |->
        LET lines == acceptedLines(t)
        IN  [n \in 1..Len(lines) |->
                IF thirdColumnIsGerente(lines[n]) THEN "GERENTE" ELSE "EQUIPE"]]

hasEmployee(name, role) ==
    \E j \in 1..Len(employees) :
        employees[j].name = name /\ employees[j].role = role

\* C11: every employee an import creates has a role of EmployeeRole, and
\* that role is GERENTE exactly when its row has a third column whose
\* trimmed, upper-cased text is GERENTE; it is EQUIPE in every other case.
C11_ImportedRoleFromThirdColumn ==
    [][importCompletes =>
          LET roles == expectedRoles[deliveredText]
          IN  /\ Len(employees') = Len(employees) + Len(roles)
              /\ \A n \in 1..Len(roles) :
                    employees'[Len(employees) + n].role = roles[n]]_vars

\* imports have put in the roster a row whose third column reads " Gerente "
\* as GERENTE and a row without a third column as EQUIPE
C11_Witness ==
    /\ hasEmployee(<<"C", "y">>, "GERENTE")
    /\ hasEmployee(<<"A", "l">>, "EQUIPE")

\* name, salary and role of an employee, as a parsed row gives them
rowOf(e) == [name |-> e.name, baseSalary |-> e.baseSalary, role |-> e.role]

parsedRow(line) ==
    LET r == parseLine(line)
    IN  [name |-> r.name, baseSalary |-> r.baseSalary, role |-> r.role]

\* for every file, its accepted rows in file order
expectedRows ==
    [t \in ImportFiles |->
        LET lines == acceptedLines(t)
        IN  [n \in 1..Len(lines) |-> parsedRow(lines[n])]]

\* C12: a completed import only adds: the roster it started from is the
\* prefix of the roster it leaves, fields and order unchanged; the accepted
\* rows follow in file order; teamPerformance and selectedId are unchanged;
\* a file without an accepted row leaves the roster unchanged.
C12_ImportOnlyAppends ==
    [][importCompletes =>
          LET rows == expectedRows[deliveredText]
          IN  /\ Len(employees') = Len(employees) + Len(rows)
              /\ SubSeq(employees', 1, Len(employees)) = employees
              /\ \A n \in 1..Len(rows) : rowOf(appended[n]) = rows[n]
              /\ teamPerformance' = teamPerformance
              /\ selectedId' = selectedId
              /\ (Len(rows) = 0 => employees' = employees)]_vars

\* the two rows of a file stand, in file order, behind the two employees
\* the roster started with, and the selection is still the first of them
C12_Witness ==
    /\ Len(employees) = Len(DefaultEmployees) + 2
    /\ SubSeq(employees, 1, Len(DefaultEmployees)) = DefaultEmployees
    /\ employees[Len(DefaultEmployees) + 1].name = <<"A", "l">>
    /\ employees[Len(DefaultEmployees) + 2].name = <<"B", "e">>
    /\ selectedId = DefaultEmployees[1].id

-----------------------------------------------------------------------------
(* Properties of the roster handlers, checked under Spec *)

\* C13: a confirmed clearAllData leaves the roster empty, teamPerformance
\* empty and selectedId null, whatever the state before; a declined one
\* leaves employees, teamPerformance and selectedId unchanged.
C13_ClearAllErasesOrKeeps ==
    [][/\ clearAllData(TRUE) =>
             /\ employees' = <<>>
             /\ DOMAIN teamPerformance' = {}
             /\ selectedId' = null
       /\ clearAllData(FALSE) =>
             /\ employees' = employees
             /\ teamPerformance' = teamPerformance
             /\ selectedId' = selectedId]_vars

\* the roster is empty after two user events of which the first added to
\* it (the clock has been read): the second was a confirmed clearAllData,
\* since a delete removes the employees of one id only
C13_Witness ==
    /\ steps = 2
    /\ now > Len(DefaultEmployees)
    /\ employees = <<>>
    /\ DOMAIN teamPerformance = {}
    /\ selectedId = null

\* C14: in every reachable state selectedId is null or the id of an employee
\* of the roster.
C14_SelectionIsNullOrInRoster ==
    selectedId = null \/ selectedId \in rosterIds

\* the selected employee has been deleted from a roster that still has
\* employees: the selection is null, not the id of the removed employee
C14_Witness ==
    /\ selectedId = null
    /\ Len(employees) > 0
    /\ Len(employees) < Len(DefaultEmployees)

\* C15: starting from an empty teamPerformance, every key of
\* teamPerformance is at all times the id of an employee of the roster.
\* Checked of the first definition of the component, under SpecFirst.
C15_PerformanceKeysInRoster == DOMAIN teamPerformance \subseteq rosterIds

\* C16: the employees of the roster have pairwise distinct ids.
C16_IdsPairwiseDistinct ==
    \A i, j \in 1..Len(employees) :
        i # j => employees[i].id # employees[j].id

====
